---- MODULE Spec2Model ----
(***************************************************************************)
(* Model of Dashboard.ipynb: the data wrangling functions (parse_date,     *)
(* initialize_dataframe, set_dataframe_value, wrangle_data), the refresh   *)
(* button callback (api_button_callback), the widgets and the two charts   *)
(* (plot_ventilator_hospital, plot_vaccine_cases, refresh_graph).          *)
(*                                                                         *)
(* Representation.  A Python str is a sequence of character codes, so that *)
(* list.sort() on date strings is the lexicographic order Python uses.     *)
(* A pandas Timestamp at daily resolution is a day number (days since      *)
(* 1970-01-01).  A raw value, a cell and an outcome are records with a     *)
(* kind/exc tag.  Python sequences are 0-based, the sequences here 1-based.*)
(***************************************************************************)
EXTENDS Integers, Sequences, FiniteSets, TLC

VARIABLES
    rawdata,                       \* wrangle_data's first argument
    column_array,                  \* wrangle_data's second argument
    result,                        \* what the call returned or raised
    pc,                            \* "call" | "returned" | "dashboard"
    covid_jsondata,                \* global: records loaded from covid_data.json
    hospital_ventilator_df,        \* global table
    vaccine_cases_df,              \* global table
    apibutton,                     \* Button: description, disabled, icon
    hospital_ventilator_options,   \* SelectMultiple.value
    hospital_ventilator_timeframe, \* SelectionRangeSlider: options, index
    vaccine_cases_scale,           \* RadioButtons.value
    ventilator_hospital_graph,     \* what the first Output widget shows
    vaccine_cases_graph,           \* what the second Output widget shows
    fetches,                       \* number of access_api() calls so far
    last                           \* record of the handler that ran last

vars == <<rawdata, column_array, result, pc, covid_jsondata,
          hospital_ventilator_df, vaccine_cases_df, apibutton,
          hospital_ventilator_options, hospital_ventilator_timeframe,
          vaccine_cases_scale, ventilator_hospital_graph, vaccine_cases_graph,
          fetches, last>>

wrangle_vars == <<rawdata, column_array, result>>

dashboard_vars == <<covid_jsondata, hospital_ventilator_df, vaccine_cases_df,
                    apibutton, hospital_ventilator_options,
                    hospital_ventilator_timeframe, vaccine_cases_scale,
                    ventilator_hospital_graph, vaccine_cases_graph, fetches, last>>

----------------------------------------------------------------------------
(* Bounds *)

\* longest record list handed to wrangle_data in the function-level runs
MaxRecords == 2

\* longest record list in the canned covid_data.json
MaxFileRecords == 2

\* longest record list in an API response
MaxApiRecords == 1

----------------------------------------------------------------------------
(* Strings and dates *)

Pad2(n) == <<48 + (n \div 10), 48 + (n % 10)>>

Pad4(n) == <<48 + (n \div 1000), 48 + ((n \div 100) % 10)>> \o Pad2(n % 100)

\* the "Date" text of a record: YYYY-MM-DD, zero padded
Iso(y, m, d) == Pad4(y) \o <<45>> \o Pad2(m) \o <<45>> \o Pad2(d)

\* Python's str comparison: first differing character code decides,
\* a proper prefix is smaller
RECURSIVE StrLess(_, _)
StrLess(s, t) ==
    IF s = <<>> THEN t # <<>>
    ELSE IF t = <<>> THEN FALSE
    ELSE IF Head(s) # Head(t) THEN Head(s) < Head(t)
    ELSE StrLess(Tail(s), Tail(t))

RECURSIVE Insert(_, _)
Insert(x, sorted) ==
    IF sorted = <<>> THEN <<x>>
    ELSE IF StrLess(x, Head(sorted)) THEN <<x>> \o sorted
    ELSE <<Head(sorted)>> \o Insert(x, Tail(sorted))

\* list.sort() on a list of str
RECURSIVE Sort(_)
Sort(xs) == IF xs = <<>> THEN <<>> ELSE Insert(Head(xs), Sort(Tail(xs)))

IsLeap(y) == (y % 4 = 0 /\ y % 100 # 0) \/ y % 400 = 0

DaysInMonth(y, m) ==
    IF m = 2 THEN (IF IsLeap(y) THEN 29 ELSE 28)
    ELSE IF m \in {4, 6, 9, 11} THEN 30 ELSE 31

\* day number of a calendar date (proleptic Gregorian, 1970-01-01 = 0)
DayNumber(y, m, d) ==
    LET yy  == IF m <= 2 THEN y - 1 ELSE y
        era == yy \div 400
        yoe == yy - era * 400
        mp  == IF m > 2 THEN m - 3 ELSE m + 9
        doy == (153 * mp + 2) \div 5 + d - 1
        doe == yoe * 365 + yoe \div 4 - yoe \div 100 + doy
    IN  era * 146097 + doe - 719468

IsDigit(c) == c \in 48..57

Num2(s, i) == (s[i] - 48) * 10 + (s[i + 1] - 48)

Num4(s, i) == Num2(s, i) * 100 + Num2(s, i + 2)

\* pd.to_datetime(datestring, format="%Y-%m-%d") on a ten character text:
\* the Timestamp, or ValueError when the text is no calendar date
parse_date(datestring) ==
    LET shaped == /\ Len(datestring) = 10
                  /\ datestring[5] = 45 /\ datestring[8] = 45
                  /\ \A i \in {1, 2, 3, 4, 6, 7, 9, 10} : IsDigit(datestring[i])
        y == Num4(datestring, 1)
        m == Num2(datestring, 6)
        d == Num2(datestring, 9)
    IN  IF shaped /\ m \in 1..12 /\ d \in 1..DaysInMonth(y, m)
        THEN [exc |-> "none", ts |-> DayNumber(y, m, d)]
        ELSE [exc |-> "ValueError", ts |-> 0]

\* faulty variant: the range runs one day past its end
date_range_long(start, end) == [i \in 1..(end - start + 2) |-> start + i - 1]

\* pd.date_range(start, end, freq='D'): empty when end < start
date_range(start, end) == [i \in 1..(end - start + 1) |-> start + i - 1]

----------------------------------------------------------------------------
(* Values, cells and tables *)

None == [kind |-> "none", v |-> 0]

Num(n) == [kind |-> "int", v |-> n]

NaN == [kind |-> "nan", v |-> 0]

Float(n) == [kind |-> "float", v |-> n]

\* float(x) for the value kinds a JSON document holds
float(x) ==
    IF x.kind \in {"int", "float"} THEN [exc |-> "none", val |-> Float(x.v)]
    ELSE [exc |-> "ValueError", val |-> NaN]

\* pd.isna on one cell
isna(cell) == cell.kind = "nan"

NoFrame == [index |-> <<>>, columns |-> <<>>, cells |-> <<>>]

\* pd.DataFrame(index=index, columns=column_array): every cell unset
DataFrame(index, columns) ==
    [index   |-> index,
     columns |-> columns,
     cells   |-> [k \in {index[i] : i \in 1..Len(index)}
                        \X {columns[j] : j \in 1..Len(columns)} |-> NaN]]

Returned(df) == [exc |-> "none", df |-> df]

Raised(e) == [exc |-> e, df |-> NoFrame]

----------------------------------------------------------------------------
(* Data wrangling *)

DateColumn(data) == [i \in 1..Len(data) |-> data[i].Date]

\* faulty variant: an empty record list gives an empty table
initialize_dataframe_lenient(data, columns) ==
    LET dates == Sort(DateColumn(data))
    IN  IF dates = <<>> THEN Returned(DataFrame(<<>>, columns))
        ELSE LET start == parse_date(dates[1])
                 end   == parse_date(dates[Len(dates)])
             IN  IF start.exc # "none" THEN Raised(start.exc)
                 ELSE IF end.exc # "none" THEN Raised(end.exc)
                 ELSE Returned(DataFrame(date_range(start.ts, end.ts), columns))

\* initialize_dataframe: dates[0] raises IndexError on an empty list
initialize_dataframe(data, columns) ==
    LET dates == Sort(DateColumn(data))
    IN  IF dates = <<>> THEN Raised("IndexError")
        ELSE LET start == parse_date(dates[1])
                 end   == parse_date(dates[Len(dates)])
             IN  IF start.exc # "none" THEN Raised(start.exc)
                 ELSE IF end.exc # "none" THEN Raised(end.exc)
                 ELSE Returned(DataFrame(date_range(start.ts, end.ts), columns))

\* faulty variant: the cell is written whether or not it is already set
set_dataframe_value_overwrite(dataframe, entry, column) ==
    LET date == parse_date(entry.Date)
        key  == <<date.ts, column>>
    IN  IF date.exc # "none" THEN Raised(date.exc)
        ELSE IF key \notin DOMAIN dataframe.cells THEN Raised("KeyError")
        ELSE IF column \notin DOMAIN entry.fields THEN Raised("KeyError")
        ELSE LET val == IF entry.fields[column] # None
                        THEN float(entry.fields[column])
                        ELSE [exc |-> "none", val |-> Float(0)]
             IN  IF val.exc # "none" THEN Raised(val.exc)
                 ELSE Returned([dataframe EXCEPT !.cells[key] = val.val])

\* set_dataframe_value: dataframe.loc[date,column] is written only while unset;
\* entry[column] raises KeyError when the record has no such field
set_dataframe_value(dataframe, entry, column) ==
    LET date == parse_date(entry.Date)
        key  == <<date.ts, column>>
    IN  IF date.exc # "none" THEN Raised(date.exc)
        ELSE IF key \notin DOMAIN dataframe.cells THEN Raised("KeyError")
        ELSE IF ~isna(dataframe.cells[key]) THEN Returned(dataframe)
        ELSE IF column \notin DOMAIN entry.fields THEN Raised("KeyError")
        ELSE LET val == IF entry.fields[column] # None
                        THEN float(entry.fields[column])
                        ELSE [exc |-> "none", val |-> Float(0)]
             IN  IF val.exc # "none" THEN Raised(val.exc)
                 ELSE Returned([dataframe EXCEPT !.cells[key] = val.val])

\* the inner loop of wrangle_data, from the j-th column on
RECURSIVE fill_columns(_, _, _, _)
fill_columns(out, entry, columns, j) ==
    IF out.exc # "none" \/ j > Len(columns) THEN out
    ELSE fill_columns(set_dataframe_value(out.df, entry, columns[j]),
                      entry, columns, j + 1)

\* the outer loop of wrangle_data, from the i-th record on
RECURSIVE fill_entries(_, _, _, _)
fill_entries(out, data, columns, i) ==
    IF out.exc # "none" \/ i > Len(data) THEN out
    ELSE fill_entries(fill_columns(out, data[i], columns, 1), data, columns, i + 1)

\* df.fillna(0.0, inplace=True)
fillna(df) ==
    [df EXCEPT !.cells = [k \in DOMAIN df.cells |->
                             IF isna(df.cells[k]) THEN Float(0) ELSE df.cells[k]]]

\* faulty variant: the remaining holes are not filled
wrangle_data_nofill(data, columns) ==
    fill_entries(initialize_dataframe(data, columns), data, columns, 1)

\* wrangle_data: the table, or the exception the first failing step raised
wrangle_data(data, columns) ==
    LET filled == fill_entries(initialize_dataframe(data, columns), data, columns, 1)
    IN  IF filled.exc # "none" THEN filled ELSE Returned(fillna(filled.df))

\* the column sets of the two tables
HospitalColumns == <<"Hospital Admissions", "Occupied Ventilator Beds", "Daily Deaths">>

VaccineColumns == <<"Daily Cases", "Daily Vaccines Administered">>

----------------------------------------------------------------------------
(* Inputs *)

PartialFns(keys, values) == UNION {[S -> values] : S \in SUBSET keys}

Lists(S, n) == UNION {[1..k -> S] : k \in 0..n}

SeqToSet(q) == {q[i] : i \in 1..Len(q)}

\* calendar days around a year end, with a gap, and one text that is no date
ValidDates == {Iso(2020, 12, 31), Iso(2021, 1, 1), Iso(2021, 1, 3)}

BadDates == {Iso(2021, 2, 30)}

\* what a field of a record holds: the no-data marker or a number
FieldValues == {None, Num(5), Num(7)}

\* records for the function-level runs: a date text and any subset of the
\* vaccine fields, each with any value
WrangleEntries ==
    {[Date |-> d, fields |-> f] :
        d \in ValidDates \cup BadDates,
        f \in PartialFns(SeqToSet(VaccineColumns), FieldValues)}

WrangleColumnArrays == {<<"Daily Cases">>, VaccineColumns}

NoResponse == [exc |-> "not called", data |-> <<>>]

NotCalled == [exc |-> "not called", df |-> NoFrame]

NoButton == [description |-> "", disabled |-> TRUE, icon |-> ""]

NoSlider == [options |-> <<>>, index |-> <<0, 0>>]

NoGraph == [error |-> FALSE, frame |-> NoFrame]

NoPlot == [df |-> NoFrame, logy |-> FALSE]

\* no handler has run, or the last one was a widget's own
Idle ==
    [handler    |-> "none",
     response   |-> NoResponse,
     before     |-> [hv |-> NoFrame, vc |-> NoFrame, options |-> <<>>, timeframe |-> NoSlider],
     plot_calls |-> <<>>]

----------------------------------------------------------------------------
(* wrangle_data applied to one input *)

InitW ==
    /\ rawdata \in Lists(WrangleEntries, MaxRecords)
    /\ column_array \in WrangleColumnArrays
    /\ result = NotCalled
    /\ pc = "call"
    /\ covid_jsondata = <<>>
    /\ hospital_ventilator_df = NoFrame
    /\ vaccine_cases_df = NoFrame
    /\ apibutton = NoButton
    /\ hospital_ventilator_options = <<>>
    /\ hospital_ventilator_timeframe = NoSlider
    /\ vaccine_cases_scale = "Linear"
    /\ ventilator_hospital_graph = NoGraph
    /\ vaccine_cases_graph = NoPlot
    /\ fetches = 0
    /\ last = Idle

CallWrangle ==
    /\ pc = "call"
    /\ result' = wrangle_data(rawdata, column_array)
    /\ pc' = "returned"
    /\ UNCHANGED <<rawdata, column_array>>
    /\ UNCHANGED dashboard_vars

NextW == CallWrangle

SpecW == InitW /\ [][NextW]_vars

----------------------------------------------------------------------------
(* Claims about wrangle_data *)

AllDatesValid(data) == \A i \in 1..Len(data) : parse_date(data[i].Date).exc = "none"

DaysOf(data) == {parse_date(data[i].Date).ts : i \in 1..Len(data)}

MinOf(S) == CHOOSE x \in S : \A y \in S : x <= y

MaxOf(S) == CHOOSE x \in S : \A y \in S : y <= x

TableReturned == pc = "returned" /\ result.exc = "none"

\* C1: for a non-empty record list with valid dates, the index of the returned
\* table is exactly the days from the earliest to the latest date of the
\* records: it starts at the earliest, ends at the latest, and each row is one
\* day after the row before it.
C1_IndexIsFullSpan ==
    (TableReturned /\ rawdata # <<>> /\ AllDatesValid(rawdata)) =>
        LET index == result.df.index
        IN  /\ Len(index) = MaxOf(DaysOf(rawdata)) - MinOf(DaysOf(rawdata)) + 1
            /\ index[1] = MinOf(DaysOf(rawdata))
            /\ index[Len(index)] = MaxOf(DaysOf(rawdata))
            /\ \A i \in 1..(Len(index) - 1) : index[i + 1] = index[i] + 1

\* a table came back for records given latest first, across the year end
C1_Witness ==
    /\ TableReturned
    /\ Len(rawdata) = 2
    /\ rawdata[1].Date = Iso(2021, 1, 3)
    /\ rawdata[2].Date = Iso(2020, 12, 31)
    /\ Len(result.df.index) = 4

\* C2: every cell of a returned table holds a number, none is left unset.
C2_NoUnsetCell ==
    TableReturned =>
        \A k \in DOMAIN result.df.cells : result.df.cells[k].kind = "float"

\* a table came back for an input with a no-data value in a requested column
\* and a day of the span that no record has
C2_Witness ==
    /\ TableReturned
    /\ \E i \in 1..Len(rawdata) :
          /\ column_array[1] \in DOMAIN rawdata[i].fields
          /\ rawdata[i].fields[column_array[1]] = None
    /\ Len(result.df.index) > Cardinality(DaysOf(rawdata))

CarryAll(data, columns) ==
    \A i \in 1..Len(data) : SeqToSet(columns) \subseteq DOMAIN data[i].fields

RecordsOn(data, day) == {i \in 1..Len(data) : parse_date(data[i].Date).ts = day}

AsNumber(x) == IF x = None THEN Float(0) ELSE Float(x.v)

\* C3: when every record carries every requested column, a cell holds the
\* value of the first record of its date, no-data counted as zero, and zero
\* when no record has its date.
C3_FirstRecordWins ==
    (TableReturned /\ AllDatesValid(rawdata) /\ CarryAll(rawdata, column_array)) =>
        \A k \in DOMAIN result.df.cells :
            LET on == RecordsOn(rawdata, k[1])
            IN  result.df.cells[k] =
                    IF on = {} THEN Float(0)
                    ELSE AsNumber(rawdata[MinOf(on)].fields[k[2]])

\* two records of one date, the first with no data and the second with 7:
\* the cell is zero
C3_Witness ==
    /\ TableReturned
    /\ Len(rawdata) = 2
    /\ CarryAll(rawdata, column_array)
    /\ rawdata[1].Date = rawdata[2].Date
    /\ rawdata[1].fields["Daily Cases"] = None
    /\ rawdata[2].fields["Daily Cases"] = Num(7)
    /\ result.df.cells[<<parse_date(rawdata[1].Date).ts, "Daily Cases">>] = Float(0)

\* C4: when no record of a date that occurs in the input contains a requested
\* column, wrangle_data still returns a table and the cell is zero.
C4_MissingFieldZeroFill ==
    (pc = "returned" /\ rawdata # <<>> /\ AllDatesValid(rawdata)) =>
        \A day \in DaysOf(rawdata) : \A j \in 1..Len(column_array) :
            (\A i \in RecordsOn(rawdata, day) :
                    column_array[j] \notin DOMAIN rawdata[i].fields) =>
                /\ result.exc = "none"
                /\ result.df.cells[<<day, column_array[j]>>] = Float(0)

----------------------------------------------------------------------------
(* The dashboard: data sources *)

Absent == [kind |-> "absent", v |-> 0]

GroupFields(columns, value) ==
    IF value = Absent THEN <<>> ELSE [c \in SeqToSet(columns) |-> value]

\* a record of the data source: the hospital fields share one value or are
\* all missing, and so do the vaccine fields
Entry(d, h, v) ==
    [Date |-> d, fields |-> GroupFields(HospitalColumns, h) @@ GroupFields(VaccineColumns, v)]

\* covid_data.json: records with every field of the structure
FileDates == {Iso(2020, 12, 31), Iso(2021, 1, 1)}

FileEntries == {Entry(d, Num(5), Num(5)) : d \in FileDates}

FileInputs == Lists(FileEntries, MaxFileRecords) \ {<<>>}

\* load_json_data: the 'data' entry of the file
load_json_data(file) == file

\* what access_api()['data'] evaluates to: an exception (the request fails,
\* or the answer has no 'data'), or a record list, which may be empty and
\* whose records may lack the vaccine fields or hold no data for them
ApiDates == {Iso(2021, 1, 1), Iso(2021, 1, 3)}

ApiEntries ==
    {Entry(d, Num(7), v) : d \in ApiDates, v \in {Absent, None, Num(7)}}

access_api ==
    {[exc |-> "Exception", data |-> <<>>]}
        \cup {[exc |-> "none", data |-> l] : l \in Lists(ApiEntries, MaxApiRecords)}

----------------------------------------------------------------------------
(* The dashboard: widgets and charts *)

\* SelectMultiple.value: the selected options, in the order of the options
Selections ==
    {SelectSeq(HospitalColumns, LAMBDA c : c \in S) : S \in SUBSET SeqToSet(HospitalColumns)}

\* SelectionRangeSlider.value: the dates at the two ends of the selected range
SliderValue(slider) == <<slider.options[slider.index[1]], slider.options[slider.index[2]]>>

\* the date range slider built from the table loaded at startup
timeframe_widget(df) ==
    LET dates == date_range(df.index[1], df.index[Len(df.index)])
    IN  [options |-> dates, index |-> <<1, Len(dates)>>]

\* plot_ventilator_hospital: the rows of df between the two dates, the
\* selected columns; plotting no column raises inside the Output widget,
\* which then shows the error
plot_ventilator_hospital(df, option, timeframe) ==
    LET index == SelectSeq(df.index, LAMBDA t : timeframe[1] <= t /\ t <= timeframe[2])
    IN  IF option = <<>> THEN [error |-> TRUE, frame |-> NoFrame]
        ELSE [error |-> FALSE,
              frame |-> [index   |-> index,
                         columns |-> option,
                         cells   |-> [k \in SeqToSet(index) \X SeqToSet(option)
                                         |-> df.cells[k]]]]

\* plot_vaccine_cases: the whole table, on a linear or a logarithmic axis
plot_vaccine_cases(df, scale) == [df |-> df, logy |-> scale # "Linear"]

\* faulty variant: the other value is always the first two options
refresh_graph_fixed(current) ==
    LET other == SubSeq(HospitalColumns, 1, 2)
    IN  [value |-> current,
         calls |-> (IF other # current THEN <<other>> ELSE <<>>)
                       \o (IF current # other THEN <<current>> ELSE <<>>)]

\* refresh_graph: the selection is set to another value and back; an
\* assignment to a widget value calls the observers only when it changes it.
\* calls lists the arguments plot_ventilator_hospital is called with.
refresh_graph(current) ==
    LET other == IF current = SubSeq(HospitalColumns, 1, 3)
                 THEN SubSeq(HospitalColumns, 1, 2)
                 ELSE SubSeq(HospitalColumns, 1, 3)
    IN  [value |-> current,
         calls |-> (IF other # current THEN <<other>> ELSE <<>>)
                       \o (IF current # other THEN <<current>> ELSE <<>>)]

----------------------------------------------------------------------------
(* The dashboard: the refresh button *)

Success == [description |-> "REFRESHED", disabled |-> TRUE, icon |-> "check"]

Failure == [description |-> "UNAVAILABLE", disabled |-> TRUE, icon |-> "times"]

\* faulty variant: a failed refresh leaves the button enabled
api_button_callback_retry(response, hv, vc, button) ==
    LET failed == [button EXCEPT !.description = "UNAVAILABLE", !.icon = "times"]
    IN  IF response.exc # "none" THEN [hv |-> hv, vc |-> vc, button |-> failed]
        ELSE LET first == wrangle_data(response.data, HospitalColumns)
             IN  IF first.exc # "none" THEN [hv |-> hv, vc |-> vc, button |-> failed]
                 ELSE LET second == wrangle_data(response.data, VaccineColumns)
                      IN  IF second.exc # "none"
                          THEN [hv |-> first.df, vc |-> vc, button |-> failed]
                          ELSE [hv |-> first.df, vc |-> second.df, button |-> Success]

\* faulty variant: a successful refresh leaves the button enabled
api_button_callback_again(response, hv, vc, button) ==
    LET done == [button EXCEPT !.description = "REFRESHED", !.icon = "check"]
    IN  IF response.exc # "none" THEN [hv |-> hv, vc |-> vc, button |-> Failure]
        ELSE LET first == wrangle_data(response.data, HospitalColumns)
             IN  IF first.exc # "none" THEN [hv |-> hv, vc |-> vc, button |-> Failure]
                 ELSE LET second == wrangle_data(response.data, VaccineColumns)
                      IN  IF second.exc # "none"
                          THEN [hv |-> first.df, vc |-> vc, button |-> Failure]
                          ELSE [hv |-> first.df, vc |-> second.df, button |-> done]

\* the try/except of api_button_callback: the two globals and the button after
\* it.  Each global is assigned as soon as its wrangle_data call returns; any
\* exception ends the try block and runs the except block.
api_button_callback(response, hv, vc, button) ==
    IF response.exc # "none" THEN [hv |-> hv, vc |-> vc, button |-> Failure]
    ELSE LET first == wrangle_data(response.data, HospitalColumns)
         IN  IF first.exc # "none" THEN [hv |-> hv, vc |-> vc, button |-> Failure]
             ELSE LET second == wrangle_data(response.data, VaccineColumns)
                  IN  IF second.exc # "none"
                      THEN [hv |-> first.df, vc |-> vc, button |-> Failure]
                      ELSE [hv |-> first.df, vc |-> second.df, button |-> Success]

\* the notebook after all its cells ran: both tables wrangled from the file,
\* the widgets at their initial values, both charts drawn once
Init ==
    /\ rawdata = <<>>
    /\ column_array = <<>>
    /\ result = NotCalled
    /\ pc = "dashboard"
    /\ covid_jsondata \in {load_json_data(file) : file \in FileInputs}
    /\ hospital_ventilator_df = wrangle_data(covid_jsondata, HospitalColumns).df
    /\ vaccine_cases_df = wrangle_data(covid_jsondata, VaccineColumns).df
    /\ apibutton = [description |-> "REFRESH", disabled |-> FALSE, icon |-> "download"]
    /\ hospital_ventilator_options = HospitalColumns
    /\ hospital_ventilator_timeframe = timeframe_widget(hospital_ventilator_df)
    /\ vaccine_cases_scale = "Linear"
    /\ ventilator_hospital_graph =
           plot_ventilator_hospital(hospital_ventilator_df, hospital_ventilator_options,
                                    SliderValue(hospital_ventilator_timeframe))
    /\ vaccine_cases_graph = plot_vaccine_cases(vaccine_cases_df, vaccine_cases_scale)
    /\ fetches = 0
    /\ last = Idle

\* a click on the enabled button: api_button_callback, refresh_graph included
Click(response) ==
    /\ pc = "dashboard"
    /\ ~apibutton.disabled
    /\ LET out == api_button_callback(response, hospital_ventilator_df,
                                      vaccine_cases_df, apibutton)
           rg  == refresh_graph(hospital_ventilator_options)
       IN  /\ hospital_ventilator_df' = out.hv
           /\ vaccine_cases_df' = out.vc
           /\ apibutton' = out.button
           /\ hospital_ventilator_options' = rg.value
           /\ ventilator_hospital_graph' =
                  IF rg.calls = <<>> THEN ventilator_hospital_graph
                  ELSE plot_ventilator_hospital(out.hv, rg.calls[Len(rg.calls)],
                                                SliderValue(hospital_ventilator_timeframe))
           /\ last' = [handler    |-> "api_button_callback",
                       response   |-> response,
                       before     |-> [hv        |-> hospital_ventilator_df,
                                       vc        |-> vaccine_cases_df,
                                       options   |-> hospital_ventilator_options,
                                       timeframe |-> hospital_ventilator_timeframe],
                       plot_calls |-> rg.calls]
    /\ fetches' = fetches + 1
    /\ UNCHANGED <<covid_jsondata, hospital_ventilator_timeframe, vaccine_cases_scale,
                   vaccine_cases_graph, pc>>
    /\ UNCHANGED wrangle_vars

\* the user changes the statistics selection: the first chart is redrawn
SelectStats(option) ==
    /\ pc = "dashboard"
    /\ option # hospital_ventilator_options
    /\ hospital_ventilator_options' = option
    /\ ventilator_hospital_graph' =
           plot_ventilator_hospital(hospital_ventilator_df, option,
                                    SliderValue(hospital_ventilator_timeframe))
    /\ last' = Idle
    /\ UNCHANGED <<covid_jsondata, hospital_ventilator_df, vaccine_cases_df, apibutton,
                   hospital_ventilator_timeframe, vaccine_cases_scale,
                   vaccine_cases_graph, fetches, pc>>
    /\ UNCHANGED wrangle_vars

\* the user moves the date range slider: the first chart is redrawn
MoveTimeframe(lo, hi) ==
    /\ pc = "dashboard"
    /\ lo <= hi
    /\ <<lo, hi>> # hospital_ventilator_timeframe.index
    /\ hospital_ventilator_timeframe' = [hospital_ventilator_timeframe EXCEPT !.index = <<lo, hi>>]
    /\ ventilator_hospital_graph' =
           plot_ventilator_hospital(hospital_ventilator_df, hospital_ventilator_options,
                                    SliderValue(hospital_ventilator_timeframe'))
    /\ last' = Idle
    /\ UNCHANGED <<covid_jsondata, hospital_ventilator_df, vaccine_cases_df, apibutton,
                   hospital_ventilator_options, vaccine_cases_scale,
                   vaccine_cases_graph, fetches, pc>>
    /\ UNCHANGED wrangle_vars

\* the user toggles the scale: the second chart is redrawn
SetScale(scale) ==
    /\ pc = "dashboard"
    /\ scale # vaccine_cases_scale
    /\ vaccine_cases_scale' = scale
    /\ vaccine_cases_graph' = plot_vaccine_cases(vaccine_cases_df, scale)
    /\ last' = Idle
    /\ UNCHANGED <<covid_jsondata, hospital_ventilator_df, vaccine_cases_df, apibutton,
                   hospital_ventilator_options, hospital_ventilator_timeframe,
                   ventilator_hospital_graph, fetches, pc>>
    /\ UNCHANGED wrangle_vars

Next ==
    \/ \E response \in access_api : Click(response)
    \/ \E option \in Selections : SelectStats(option)
    \/ \E lo, hi \in 1..Len(hospital_ventilator_timeframe.options) : MoveTimeframe(lo, hi)
    \/ \E scale \in {"Linear", "Logarithmic"} : SetScale(scale)

Spec == Init /\ [][Next]_vars

----------------------------------------------------------------------------
(* Claims about the refresh *)

\* api_button_callback has just returned
Clicked == last.handler = "api_button_callback"

FetchFailed == Clicked /\ last.response.exc # "none"

FreshHospital == wrangle_data(last.response.data, HospitalColumns)

FreshVaccine == wrangle_data(last.response.data, VaccineColumns)

\* the fetch and both wrangle_data calls went through
AllSucceeded ==
    /\ Clicked
    /\ last.response.exc = "none"
    /\ FreshHospital.exc = "none"
    /\ FreshVaccine.exc = "none"

BothReplaced ==
    /\ AllSucceeded
    /\ hospital_ventilator_df = FreshHospital.df
    /\ vaccine_cases_df = FreshVaccine.df

BothKept ==
    /\ hospital_ventilator_df = last.before.hv
    /\ vaccine_cases_df = last.before.vc

\* C5: after the callback either both tables are the ones wrangled from the
\* fetched records or both are the ones held before the click.
C5_AllOrNothing == Clicked => (BothReplaced \/ BothKept)

\* C6: when the fetch raises, both tables are as before the click, the button
\* shows the failure state and is disabled; and whenever the button shows the
\* failure state it is disabled and one fetch has been made, no more.
C6_FetchFailureKeepsTables ==
    /\ FetchFailed => (BothKept /\ apibutton = Failure)
    /\ apibutton.description = "UNAVAILABLE" => (apibutton.disabled /\ fetches = 1)

\* the fetch raised and the callback has returned
C6_Witness == FetchFailed /\ apibutton.icon = "times" /\ fetches = 1

\* C7: after a successful refresh both charts show the new tables.
C7_BothChartsRedrawn ==
    (AllSucceeded /\ apibutton.description = "REFRESHED") =>
        /\ ventilator_hospital_graph =
               plot_ventilator_hospital(hospital_ventilator_df, hospital_ventilator_options,
                                        SliderValue(hospital_ventilator_timeframe))
        /\ vaccine_cases_graph = plot_vaccine_cases(vaccine_cases_df, vaccine_cases_scale)

EmptyFetched == Clicked /\ last.response.exc = "none" /\ last.response.data = <<>>

\* C8: wrangle_data on an empty record list raises; inside a refresh the
\* callback catches it, keeps both tables and sets the failure state.
C8_EmptyListFailsFast ==
    EmptyFetched =>
        /\ FreshHospital.exc = "IndexError"
        /\ FreshVaccine.exc = "IndexError"
        /\ BothKept
        /\ apibutton = Failure

\* the API answered with an empty list and the button shows the failure
C8_Witness == EmptyFetched /\ apibutton.description = "UNAVAILABLE"

\* C9: once the callback has run the button is disabled, for good; it reads
\* REFRESHED only if both tables were replaced and UNAVAILABLE otherwise; the
\* callback runs at most once.
C9_ButtonDisabledAfterRun ==
    /\ fetches <= 1
    /\ fetches >= 1 =>
          /\ apibutton.disabled
          /\ apibutton.description \in {"REFRESHED", "UNAVAILABLE"}
    /\ Clicked =>
          /\ apibutton.description = "REFRESHED" => BothReplaced
          /\ ~AllSucceeded => apibutton.description = "UNAVAILABLE"

\* a successful refresh, and the user has used a widget since
C9_Witness ==
    /\ fetches = 1
    /\ apibutton.description = "REFRESHED"
    /\ ~Clicked
    /\ hospital_ventilator_df.index # hospital_ventilator_timeframe.options

StartupIndex == wrangle_data(covid_jsondata, HospitalColumns).df.index

\* C10: refresh_graph sets the selection to a different value and back, so
\* the first chart's callback runs and the selection is as before; the slider
\* keeps the options of the startup table and its range, and the rows drawn
\* lie between the startup table's first and last dates.
C10_RefreshGraphFrame ==
    /\ hospital_ventilator_timeframe.options = StartupIndex
    /\ Clicked =>
          /\ Len(last.plot_calls) = 2
          /\ last.plot_calls[1] # last.before.options
          /\ last.plot_calls[2] = last.before.options
          /\ hospital_ventilator_options = last.before.options
          /\ hospital_ventilator_timeframe = last.before.timeframe
          /\ \A t \in SeqToSet(ventilator_hospital_graph.frame.index) :
                /\ StartupIndex[1] <= t
                /\ t <= StartupIndex[Len(StartupIndex)]

\* a successful refresh with the first two statistics selected, to a table
\* that runs past the last date of the slider
C10_Witness ==
    /\ Clicked
    /\ apibutton.description = "REFRESHED"
    /\ last.before.options = SubSeq(HospitalColumns, 1, 2)
    /\ hospital_ventilator_df.index[Len(hospital_ventilator_df.index)]
           > StartupIndex[Len(StartupIndex)]

====
